---- MODULE Spec2Model ----
(***************************************************************************)
(* Model of src/main.rs: the Aptone ledger.  Callers run handle_tx under   *)
(* the ServerData mutex, THREAD_COUNT worker threads consume their mpsc    *)
(* channel and apply transactions under the same mutex, and Drop sends     *)
(* Terminate to every worker and joins it.                                 *)
(***************************************************************************)
EXTENDS Integers, Sequences, FiniteSets, TLC

\* ------------------------------------------------------------------ bounds
\* Transactions submitted in one behaviour.
MaxTx == 3
\* Largest worker count (tx_count entry) get_handle is tried on.
MaxLoad == 2

\* ------------------------------------------------------- program constants
INVALID_HANDLE == -1
THREAD_COUNT == 4

HandleIds == 0 .. (THREAD_COUNT - 1)
\* The accounts callers use (those of main).
Accounts == {0, 1}

\* ---------------------------------------------------------------- u32
\* A u32 is kept as two 16-bit limbs <<high, low>>, so that values up to
\* 2^32 - 1 and their overflow are exact.
Limb == 2 ^ 16

U32(n) == <<n \div Limb, n % Limb>>

Zero == U32(0)
One == U32(1)
U32_MAX == <<Limb - 1, Limb - 1>>

\* a < b
U32Lt(a, b) == a[1] < b[1] \/ (a[1] = b[1] /\ a[2] < b[2])

\* The exact sum, whose high limb may exceed 16 bits.
WideAdd(a, b) == <<a[1] + b[1] + ((a[2] + b[2]) \div Limb), (a[2] + b[2]) % Limb>>

\* The exact difference, for b <= a.
WideSub(a, b) ==
    IF a[2] >= b[2] THEN <<a[1] - b[1], a[2] - b[2]>>
    ELSE <<a[1] - b[1] - 1, a[2] + Limb - b[2]>>

U32AddOverflows(a, b) == WideAdd(a, b)[1] >= Limb

U32WrappingAdd(a, b) == <<WideAdd(a, b)[1] % Limb, WideAdd(a, b)[2]>>

\* ------------------------------------------------------------- HashMap
\* A HashMap is a function whose DOMAIN is the set of keys present.
EmptyMap == [k \in {} |-> Zero]

MapGet(m, k, default) == IF k \in DOMAIN m THEN m[k] ELSE default

MapPut(m, k, v) == [x \in (DOMAIN m) \cup {k} |-> IF x = k THEN v ELSE m[x]]

\* ------------------------------------------------------------ ServerData
\* p is pending_tx, t is tx_count, h is handler, b is balances.

increase_pending_tx(p, account, amount) ==
    MapPut(p, account, U32WrappingAdd(MapGet(p, account, Zero), amount))

\* Mutant of decrease_pending_tx: the comparison is inverted, so the count
\* is cleared whenever more than `amount` is pending.
decrease_pending_tx_inverted(p, account, amount) ==
    IF account \notin DOMAIN p THEN p
    ELSE MapPut(p, account,
                IF U32Lt(amount, p[account]) THEN Zero
                ELSE WideSub(amount, p[account]))

decrease_pending_tx(p, account, amount) ==
    IF account \notin DOMAIN p THEN p
    ELSE MapPut(p, account,
                IF U32Lt(amount, p[account]) THEN WideSub(p[account], amount)
                ELSE Zero)

\* The value decrease_pending_tx returns.
decrease_pending_tx_ret(p, account, amount) ==
    MapGet(decrease_pending_tx(p, account, amount), account, Zero)

get_pending_tx(p, account) == MapGet(p, account, Zero)

\* Mutant of increase_tx_count: the dispatcher forgets to count.
increase_tx_count_forgotten(t, handle_id, amount) == t

increase_tx_count(t, handle_id, amount) ==
    MapPut(t, handle_id, U32WrappingAdd(MapGet(t, handle_id, Zero), amount))

decrease_tx_count(t, handle_id, amount) ==
    IF handle_id \notin DOMAIN t THEN t
    ELSE MapPut(t, handle_id,
                IF U32Lt(amount, t[handle_id]) THEN WideSub(t[handle_id], amount)
                ELSE Zero)

\* `+=` on a u32 panics on overflow when the build checks overflow (debug)
\* and wraps when it does not (release).
increase_balance_panics(b, account, amount, checks) ==
    checks /\ U32AddOverflows(MapGet(b, account, Zero), amount)

increase_balance(b, account, amount) ==
    MapPut(b, account, U32WrappingAdd(MapGet(b, account, Zero), amount))

decrease_balance_panics(b, account, amount) ==
    \/ account \notin DOMAIN b
    \/ U32Lt(b[account], amount)

decrease_balance(b, account, amount) ==
    MapPut(b, account, WideSub(b[account], amount))

get_balance(b, account) == MapGet(b, account, Zero)

set_handle(h, account, handle_id) == MapPut(h, account, handle_id)

\* The handler map after get_handle: the account's entry exists.
get_handle_handler(h, account) ==
    MapPut(h, account, MapGet(h, account, INVALID_HANDLE))

\* The tx_count map after get_handle: the scan inserts every worker's entry.
get_handle_tx_count(h, t, account) ==
    IF MapGet(h, account, INVALID_HANDLE) # INVALID_HANDLE THEN t
    ELSE [id \in (DOMAIN t) \cup HandleIds |-> MapGet(t, id, Zero)]

\* The loop `for id in 0..THREAD_COUNT` from id on, with the running
\* <<hid, min_count>>.
RECURSIVE get_handle_scan(_, _, _, _)
get_handle_scan(t, id, hid, min_count) ==
    IF id >= THREAD_COUNT THEN hid
    ELSE IF U32Lt(MapGet(t, id, Zero), min_count)
         THEN get_handle_scan(t, id + 1, id, MapGet(t, id, Zero))
         ELSE get_handle_scan(t, id + 1, hid, min_count)

\* Mutant of the scan: `<=` for `<`, so the last of the least loaded wins.
RECURSIVE get_handle_scan_le(_, _, _, _)
get_handle_scan_le(t, id, hid, min_count) ==
    IF id >= THREAD_COUNT THEN hid
    ELSE IF ~U32Lt(min_count, MapGet(t, id, Zero))
         THEN get_handle_scan_le(t, id + 1, id, MapGet(t, id, Zero))
         ELSE get_handle_scan_le(t, id + 1, hid, min_count)

\* Mutant of get_handle: the scan starts from min_count = 0, so no count is
\* below it and hid stays INVALID_HANDLE.
get_handle_min_from_zero(h, t, account) ==
    IF MapGet(h, account, INVALID_HANDLE) # INVALID_HANDLE
    THEN h[account]
    ELSE get_handle_scan(t, 0, INVALID_HANDLE, Zero)

\* Mutant of get_handle: ties go to the highest worker id.
get_handle_highest_tie(h, t, account) ==
    IF MapGet(h, account, INVALID_HANDLE) # INVALID_HANDLE
    THEN h[account]
    ELSE get_handle_scan_le(t, 0, INVALID_HANDLE, U32_MAX)

\* Mutant of get_handle: the account's current handler is ignored.
get_handle_ignores_affinity(h, t, account) ==
    get_handle_scan(t, 0, INVALID_HANDLE, U32_MAX)

get_handle(h, t, account) ==
    IF MapGet(h, account, INVALID_HANDLE) # INVALID_HANDLE
    THEN h[account]
    ELSE get_handle_scan(t, 0, INVALID_HANDLE, U32_MAX)

\* What the worker does to the counters after it applied a transaction
\* (`if data.decrease_pending_tx(account, 1) == 0 { set_handle(INVALID) }`,
\* then `data.decrease_tx_count(id, 1)`).
\* Mutant of settle_handler: the handler is released whatever is pending.
settle_handler_always(h, p, account) ==
    set_handle(h, account, INVALID_HANDLE)

\* Mutant of settle_handler: the handler is never released.
settle_handler_never(h, p, account) == h

settle_handler(h, p, account) ==
    IF decrease_pending_tx_ret(p, account, One) = Zero
    THEN set_handle(h, account, INVALID_HANDLE)
    ELSE h

\* --------------------------------------------------------------- messages
TxTypes == {"DEPOSIT", "WITHDRAW"}

\* What callers submit to an account: deposits of 500 and of u32::MAX,
\* withdrawals of 300.
TxInputs ==
    {<<"DEPOSIT", U32(500)>>, <<"DEPOSIT", U32_MAX>>, <<"WITHDRAW", U32(300)>>}

\* Message::NewTx(Tx {account, amount, tx_type}); seq is the position of the
\* transaction in the order of handle_tx calls (history, not program state).
NewTx(seq, account, amount, tx_type) ==
    [kind |-> "NewTx", seq |-> seq, account |-> account, amount |-> amount,
     tx_type |-> tx_type]

Terminate ==
    [kind |-> "Terminate", seq |-> 0, account |-> 0, amount |-> Zero,
     tx_type |-> "NONE"]

NoMsg ==
    [kind |-> "None", seq |-> 0, account |-> 0, amount |-> Zero,
     tx_type |-> "NONE"]

\* Owners of the Mutex<ServerData> other than the workers 0..THREAD_COUNT-1.
Caller == THREAD_COUNT
NoOwner == THREAD_COUNT + 1

NoCall == [id |-> INVALID_HANDLE, msg |-> NoMsg]

\* ------------------------------------------------------------------ state
VARIABLES
    pending_tx,      \* ServerData.pending_tx
    tx_count,        \* ServerData.tx_count
    handler,         \* ServerData.handler
    balances,        \* ServerData.balances
    lock,            \* owner of the Mutex<ServerData>, or NoOwner
    poisoned,        \* the mutex is poisoned: a thread panicked holding it
    queue,           \* per worker: the messages in its channel
    pc,              \* per worker: where its thread is
    cur,             \* per worker: the message it received and is handling
    call,            \* the handle_tx call inside its critical section
    thread,          \* per worker: TxHandler.thread is Some
    drop_pc,         \* where Drop::drop is
    drop_i,          \* index of the handler Drop::drop is at
    drop_runs,       \* times the body of Drop::drop was started
    caller_panicked, \* a caller panicked at lock().unwrap()
    overflow_checks, \* the build's overflow-checks: "on" (debug) panics on
                     \* integer overflow, "off" (release) wraps; it is one
                     \* value for the whole run, "unobserved" until the
                     \* first overflow shows it
    submitted,       \* history: the transactions in handle_tx order
    applied,         \* history: seq of the transactions applied
    rejected         \* history: seq of the withdrawals refused

vars ==
    <<pending_tx, tx_count, handler, balances, lock, poisoned, queue, pc, cur,
      call, thread, drop_pc, drop_i, drop_runs, caller_panicked,
      overflow_checks, submitted, applied, rejected>>

data_vars == <<pending_tx, tx_count, handler, balances>>
drop_vars == <<thread, drop_pc, drop_i, drop_runs>>
hist_vars == <<submitted, applied, rejected>>

\* The worker's thread is over, so its Receiver is dropped.
Dead(w) == pc[w] \in {"stopped", "panicked"}

\* Aptone::new
Init ==
    /\ pending_tx = EmptyMap
    /\ tx_count = EmptyMap
    /\ handler = EmptyMap
    /\ balances = EmptyMap
    /\ lock = NoOwner
    /\ poisoned = FALSE
    /\ queue = [w \in HandleIds |-> <<>>]
    /\ pc = [w \in HandleIds |-> "recv"]
    /\ cur = [w \in HandleIds |-> NoMsg]
    /\ call = NoCall
    /\ thread = [w \in HandleIds |-> TRUE]
    /\ drop_pc = "alive"
    /\ drop_i = 0
    /\ drop_runs = 0
    /\ caller_panicked = FALSE
    /\ overflow_checks = "unobserved"
    /\ submitted = <<>>
    /\ applied = {}
    /\ rejected = {}

\* ------------------------------------------------------------- handle_tx
\* Lines 211-225: lock, get_handle, set_handle, increase the counters.  The
\* guard `data` lives to the end of handle_tx, so the lock stays held.
handle_tx_lock(account, amount, tx_type) ==
    /\ drop_pc = "alive"
    /\ Len(submitted) < MaxTx
    /\ lock = NoOwner
    /\ ~poisoned
    /\ LET id == get_handle(handler, tx_count, account)
           h1 == get_handle_handler(handler, account)
           t1 == get_handle_tx_count(handler, tx_count, account)
       IN /\ handler' = set_handle(h1, account, id)
          /\ pending_tx' = increase_pending_tx(pending_tx, account, One)
          /\ tx_count' = increase_tx_count(t1, id, One)
          /\ call' = [id |-> id,
                      msg |-> NewTx(Len(submitted) + 1, account, amount, tx_type)]
          /\ submitted' = Append(submitted,
                                 [account |-> account, amount |-> amount,
                                  tx_type |-> tx_type, id |-> id])
    /\ lock' = Caller
    /\ UNCHANGED <<balances, poisoned, queue, pc, cur, drop_vars,
                   caller_panicked, overflow_checks, applied, rejected>>

\* Lines 227-237: the assertion, the send, and the guard going out of scope.
\* A failed assertion or a send to a dropped Receiver panics with the guard
\* held, which poisons the mutex.
handle_tx_send ==
    /\ lock = Caller
    /\ IF call.id = INVALID_HANDLE \/ Dead(call.id)
       THEN /\ poisoned' = TRUE
            /\ caller_panicked' = TRUE
            /\ UNCHANGED queue
       ELSE /\ queue' = [queue EXCEPT ![call.id] = Append(@, call.msg)]
            /\ UNCHANGED <<poisoned, caller_panicked>>
    /\ lock' = NoOwner
    /\ call' = NoCall
    /\ UNCHANGED <<data_vars, pc, cur, drop_vars, overflow_checks, hist_vars>>

\* Line 211 on a poisoned mutex: lock().unwrap() panics in the caller.
handle_tx_poisoned ==
    /\ drop_pc = "alive"
    /\ lock = NoOwner
    /\ poisoned
    /\ ~caller_panicked
    /\ caller_panicked' = TRUE
    /\ UNCHANGED <<data_vars, lock, poisoned, queue, pc, cur, call, drop_vars,
                   overflow_checks, hist_vars>>

\* -------------------------------------------------------- get_balance
\* The value Aptone::get_balance returns when it runs in this state.
Aptone_get_balance_ret(account) == get_balance(balances, account)

\* Lines 244-246: lock, read the balance, unlock; it changes nothing.  On a
\* poisoned mutex lock().unwrap() panics in the caller.
Aptone_get_balance(account) ==
    /\ drop_pc = "alive"
    /\ lock = NoOwner
    /\ caller_panicked' = (caller_panicked \/ poisoned)
    /\ UNCHANGED <<data_vars, lock, poisoned, queue, pc, cur, call, drop_vars,
                   overflow_checks, hist_vars>>

\* ---------------------------------------------------------- worker thread
\* Line 146-148 and 171-174: receive the next message; Terminate ends the
\* thread.
worker_recv(w) ==
    /\ pc[w] = "recv"
    /\ queue[w] # <<>>
    /\ IF Head(queue[w]).kind = "Terminate"
       THEN /\ pc' = [pc EXCEPT ![w] = "stopped"]
            /\ queue' = [queue EXCEPT ![w] = <<>>]
            /\ UNCHANGED cur
       ELSE /\ pc' = [pc EXCEPT ![w] = "lock"]
            /\ queue' = [queue EXCEPT ![w] = Tail(@)]
            /\ cur' = [cur EXCEPT ![w] = Head(queue[w])]
    /\ UNCHANGED <<data_vars, lock, poisoned, call, drop_vars, caller_panicked,
                   overflow_checks, hist_vars>>

\* Line 146 once drop has panicked: the unwinding drops the Aptone's fields,
\* the Senders among them, so recv() on the empty channel is an Err and
\* unwrap panics.
worker_recv_disconnected(w) ==
    /\ pc[w] = "recv"
    /\ queue[w] = <<>>
    /\ drop_pc = "panicked"
    /\ pc' = [pc EXCEPT ![w] = "panicked"]
    /\ UNCHANGED <<data_vars, lock, poisoned, queue, cur, call, drop_vars,
                   caller_panicked, overflow_checks, hist_vars>>

\* Line 155: server_data.lock().unwrap(); on a poisoned mutex the thread
\* panics and its Receiver is dropped with what is queued.
worker_lock(w) ==
    /\ pc[w] = "lock"
    /\ lock = NoOwner
    /\ IF poisoned
       THEN /\ pc' = [pc EXCEPT ![w] = "panicked"]
            /\ cur' = [cur EXCEPT ![w] = NoMsg]
            /\ queue' = [queue EXCEPT ![w] = <<>>]
            /\ UNCHANGED lock
       ELSE /\ pc' = [pc EXCEPT ![w] = "apply"]
            /\ lock' = w
            /\ UNCHANGED <<cur, queue>>
    /\ UNCHANGED <<data_vars, poisoned, call, drop_vars, caller_panicked,
                   overflow_checks, hist_vars>>

\* The builds the run can still turn out to be.
Builds ==
    IF overflow_checks = "unobserved" THEN {"on", "off"} ELSE {overflow_checks}

\* The transaction in the worker's hand overflows the balance.
apply_overflows(w) ==
    /\ cur[w].tx_type = "DEPOSIT"
    /\ U32AddOverflows(get_balance(balances, cur[w].account), cur[w].amount)

\* The transaction in the worker's hand makes the critical section panic.
apply_panics(w, build) ==
    IF cur[w].tx_type = "DEPOSIT"
    THEN increase_balance_panics(balances, cur[w].account, cur[w].amount,
                                 build = "on")
    ELSE decrease_balance_panics(balances, cur[w].account, cur[w].amount)

\* Lines 156-168: apply the transaction, settle the counters, unlock.  A
\* panic unwinds the thread: the guard is dropped, poisoning the mutex, and
\* the Receiver is dropped with what is queued.
\* Mutant of apply_scope_end: the guard outlives the block.
apply_scope_end_keeps_guard(w) == w

\* Line 168: the block that took the guard ends, the guard is dropped.
apply_scope_end(w) == NoOwner

worker_apply(w) ==
    /\ pc[w] = "apply"
    /\ lock = w
    /\ \E build \in Builds :
           /\ overflow_checks' =
                  IF apply_overflows(w) THEN build ELSE overflow_checks
           /\ IF apply_panics(w, build)
              THEN /\ poisoned' = TRUE
                   /\ pc' = [pc EXCEPT ![w] = "panicked"]
                   /\ queue' = [queue EXCEPT ![w] = <<>>]
                   /\ rejected' = IF cur[w].tx_type = "WITHDRAW"
                                  THEN rejected \cup {cur[w].seq} ELSE rejected
                   /\ UNCHANGED <<data_vars, applied>>
              ELSE /\ balances' =
                         IF cur[w].tx_type = "DEPOSIT"
                         THEN increase_balance(balances, cur[w].account,
                                               cur[w].amount)
                         ELSE decrease_balance(balances, cur[w].account,
                                               cur[w].amount)
                   /\ pending_tx' =
                         decrease_pending_tx(pending_tx, cur[w].account, One)
                   /\ handler' =
                         settle_handler(handler, pending_tx, cur[w].account)
                   /\ tx_count' = decrease_tx_count(tx_count, w, One)
                   /\ pc' = [pc EXCEPT ![w] = "sleep"]
                   /\ applied' = applied \cup {cur[w].seq}
                   /\ UNCHANGED <<poisoned, queue, rejected>>
    /\ lock' = apply_scope_end(w)
    /\ cur' = [cur EXCEPT ![w] = NoMsg]
    /\ UNCHANGED <<call, drop_vars, caller_panicked, submitted>>

\* Line 169: thread::sleep is over, back to recv.
worker_wake(w) ==
    /\ pc[w] = "sleep"
    /\ pc' = [pc EXCEPT ![w] = "recv"]
    /\ UNCHANGED <<data_vars, lock, poisoned, queue, cur, call, drop_vars,
                   caller_panicked, overflow_checks, hist_vars>>

\* ------------------------------------------------------------------ Drop
\* drop(&mut self) starts: it needs the Aptone exclusively, so no handle_tx
\* is running, and none starts afterwards.
drop_begin ==
    /\ drop_pc = "alive"
    /\ lock # Caller
    /\ drop_pc' = "send"
    /\ drop_i' = 0
    /\ drop_runs' = 1
    /\ UNCHANGED <<data_vars, lock, poisoned, queue, pc, cur, call, thread,
                   caller_panicked, overflow_checks, hist_vars>>

\* Lines 252-255, one iteration: send Terminate; send to a dropped Receiver
\* is an Err and unwrap panics.
drop_send ==
    /\ drop_pc = "send"
    /\ IF Dead(drop_i)
       THEN /\ drop_pc' = "panicked"
            /\ UNCHANGED <<queue, drop_i>>
       ELSE /\ queue' = [queue EXCEPT ![drop_i] = Append(@, Terminate)]
            /\ drop_i' = IF drop_i + 1 < THREAD_COUNT THEN drop_i + 1 ELSE 0
            /\ drop_pc' = IF drop_i + 1 < THREAD_COUNT THEN "send" ELSE "join"
    /\ UNCHANGED <<data_vars, lock, poisoned, pc, cur, call, thread, drop_runs,
                   caller_panicked, overflow_checks, hist_vars>>

\* Lines 257-263, one iteration: take the JoinHandle and join; join waits
\* for the thread to end and is an Err if it panicked; a handle already
\* taken prints "oops".
drop_join ==
    /\ drop_pc = "join"
    /\ thread[drop_i] => Dead(drop_i)
    /\ thread' = [thread EXCEPT ![drop_i] = FALSE]
    /\ IF thread[drop_i] /\ pc[drop_i] = "panicked"
       THEN /\ drop_pc' = "panicked"
            /\ UNCHANGED drop_i
       ELSE /\ drop_i' = IF drop_i + 1 < THREAD_COUNT THEN drop_i + 1 ELSE 0
            /\ drop_pc' = IF drop_i + 1 < THREAD_COUNT THEN "join" ELSE "returned"
    /\ UNCHANGED <<data_vars, lock, poisoned, queue, pc, cur, call, drop_runs,
                   caller_panicked, overflow_checks, hist_vars>>

\* The body of drop is run again on the same Aptone after it returned.
drop_again ==
    /\ drop_pc = "returned"
    /\ drop_pc' = "send"
    /\ drop_i' = 0
    /\ drop_runs' = drop_runs + 1
    /\ UNCHANGED <<data_vars, lock, poisoned, queue, pc, cur, call, thread,
                   caller_panicked, overflow_checks, hist_vars>>

\* ---------------------------------------------------------- specification
Next ==
    \/ \E account \in Accounts, input \in TxInputs :
           handle_tx_lock(account, input[2], input[1])
    \/ handle_tx_send
    \/ handle_tx_poisoned
    \/ \E account \in Accounts : Aptone_get_balance(account)
    \/ \E w \in HandleIds : worker_recv(w)
    \/ \E w \in HandleIds : worker_recv_disconnected(w)
    \/ \E w \in HandleIds : worker_lock(w)
    \/ \E w \in HandleIds : worker_apply(w)
    \/ \E w \in HandleIds : worker_wake(w)
    \/ drop_begin
    \/ drop_send
    \/ drop_join
    \/ drop_again

Spec == Init /\ [][Next]_vars

\* ------------------------------------------------- get_handle on its own
\* ServerData states to try get_handle on: a fresh ledger, or every worker
\* with a count up to MaxLoad and account 0 unseen, released, or bound to a
\* worker that has something to do.
GetHandleInit ==
    /\ pending_tx = EmptyMap
    /\ tx_count \in {EmptyMap} \cup [HandleIds -> {U32(n) : n \in 0 .. MaxLoad}]
    /\ handler \in {EmptyMap} \cup [{0} -> HandleIds \cup {INVALID_HANDLE}]
    /\ tx_count = EmptyMap => handler = EmptyMap
    /\ \A a \in DOMAIN handler :
           handler[a] # INVALID_HANDLE => tx_count[handler[a]] # Zero
    /\ balances = EmptyMap
    /\ lock = NoOwner
    /\ poisoned = FALSE
    /\ queue = [w \in HandleIds |-> <<>>]
    /\ pc = [w \in HandleIds |-> "recv"]
    /\ cur = [w \in HandleIds |-> NoMsg]
    /\ call = NoCall
    /\ thread = [w \in HandleIds |-> TRUE]
    /\ drop_pc = "alive"
    /\ drop_i = 0
    /\ drop_runs = 0
    /\ caller_panicked = FALSE
    /\ overflow_checks = "unobserved"
    /\ submitted = <<>>
    /\ applied = {}
    /\ rejected = {}

\* Lines 116-135: one call of get_handle; call keeps what it returned.
get_handle_call(account) ==
    /\ call = NoCall
    /\ call' = [id |-> get_handle(handler, tx_count, account),
                msg |-> [NoMsg EXCEPT !.kind = "GetHandle", !.account = account]]
    /\ handler' = get_handle_handler(handler, account)
    /\ tx_count' = get_handle_tx_count(handler, tx_count, account)
    /\ UNCHANGED <<pending_tx, balances, lock, poisoned, queue, pc, cur,
                   drop_vars, caller_panicked, overflow_checks, hist_vars>>

GetHandleNext == \E account \in Accounts : get_handle_call(account)

GetHandleSpec == GetHandleInit /\ [][GetHandleNext]_vars

\* ------------------------------------------------------------ properties
Seqs == 1 .. Len(submitted)

\* Submitted and not applied.
Unapplied == Seqs \ applied

TxOf(account) == {s \in Seqs : submitted[s].account = account}

\* Transaction s is in worker w's channel, in its hand, or on its way to its
\* channel in the running handle_tx.
Holds(w, s) ==
    \/ \E i \in 1 .. Len(queue[w]) :
           queue[w][i].kind = "NewTx" /\ queue[w][i].seq = s
    \/ cur[w].kind = "NewTx" /\ cur[w].seq = s
    \/ call.id = w /\ call.msg.kind = "NewTx" /\ call.msg.seq = s

\* No worker thread can take a step.
WorkersDone ==
    \A w \in HandleIds : Dead(w) \/ (pc[w] = "recv" /\ queue[w] = <<>>)

C2_AppliedInOrder ==
    \A s \in applied :
        \A r \in Seqs :
            (r < s /\ submitted[r].account = submitted[s].account)
                => r \in applied

\* C2 witness: two transactions of one account were applied by different
\* workers (the account was released and handed to another worker).
C2_Witness ==
    \E r, s \in applied :
        /\ r < s
        /\ submitted[r].account = submitted[s].account
        /\ submitted[r].id # submitted[s].id

\* The exact sum of deposits minus withdrawals of the account among the
\* first n submitted transactions (the high limb is negative below zero).
RECURSIVE Net(_, _)
Net(account, n) ==
    IF n = 0 THEN Zero
    ELSE IF submitted[n].account # account THEN Net(account, n - 1)
    ELSE IF submitted[n].tx_type = "DEPOSIT"
         THEN WideAdd(Net(account, n - 1), submitted[n].amount)
         ELSE WideSub(Net(account, n - 1), submitted[n].amount)

\* No withdrawal of the account exceeds the running balance.
NoOverdraw(account) == \A n \in 0 .. Len(submitted) : Net(account, n)[1] >= 0

\* C3: once every transaction of an account is applied, and no withdrawal
\* exceeded the running balance, the balance is the sum of the deposits
\* minus the sum of the withdrawals.
C3_BalanceIsNet ==
    \A a \in Accounts :
        (TxOf(a) # {} /\ TxOf(a) \subseteq applied /\ NoOverdraw(a))
            => get_balance(balances, a) = Net(a, Len(submitted))

\* C4: no submitted transaction is lost: it is held by exactly one worker
\* until it is applied, and when no worker can take a step any more every
\* submitted transaction has been applied.
C4_NoTxLost ==
    /\ \A s \in Unapplied :
           Cardinality({w \in HandleIds : Holds(w, s)}) = 1
    /\ (lock = NoOwner /\ WorkersDone) => Unapplied = {}

\* Worker w is at the withdrawal that decrease_balance refuses.
Rejecting(w) ==
    /\ pc[w] = "apply"
    /\ cur[w].tx_type = "WITHDRAW"
    /\ decrease_balance_panics(balances, cur[w].account, cur[w].amount)

\* C5: the step in which a worker handles a refused withdrawal leaves the
\* balances unchanged, takes 1 from the account's pending count and from
\* the worker's count, and releases the account's handler if its pending
\* count reached 0.
C5_RejectSettles ==
    [][\A w \in HandleIds :
           (Rejecting(w) /\ pc'[w] # pc[w]) =>
               /\ balances' = balances
               /\ get_pending_tx(pending_tx', cur[w].account)
                      = WideSub(get_pending_tx(pending_tx, cur[w].account), One)
               /\ MapGet(tx_count', w, Zero)
                      = WideSub(MapGet(tx_count, w, Zero), One)
               /\ (get_pending_tx(pending_tx', cur[w].account) = Zero
                       => MapGet(handler', cur[w].account, INVALID_HANDLE)
                              = INVALID_HANDLE)]_vars

\* deposit(1, 500), withdraw(1, 300), withdraw(1, 300)
Scenario6 ==
    /\ Len(submitted) = 3
    /\ \A s \in Seqs : submitted[s].account = 1
    /\ submitted[1].tx_type = "DEPOSIT" /\ submitted[1].amount = U32(500)
    /\ submitted[2].tx_type = "WITHDRAW" /\ submitted[2].amount = U32(300)
    /\ submitted[3].tx_type = "WITHDRAW" /\ submitted[3].amount = U32(300)

\* C6: a refused withdrawal leaves its worker running and the mutex usable
\* (so what is queued behind it is still handled, and callers and other
\* workers go on); the scenario ends with balance 200 and one refusal.
C6_WorkerSurvivesReject ==
    /\ \A s \in rejected : pc[submitted[s].id] # "panicked" /\ ~poisoned
    /\ (Scenario6 /\ lock = NoOwner /\ WorkersDone)
           => /\ get_balance(balances, 1) = U32(200)
              /\ Cardinality(rejected) = 1
              /\ \A w \in HandleIds : pc[w] # "panicked"

\* Drop::drop has sent Terminate to worker w.
TerminateSent(w) ==
    \/ drop_pc \in {"join", "returned"}
    \/ drop_pc = "send" /\ drop_runs = 1 /\ drop_i > w

\* C7: a worker that Terminate was sent to and whose thread has ended has
\* applied every transaction sent to it; Terminate is the last message in a
\* channel; drop has returned only if every worker has stopped.
C7_ShutdownDrains ==
    /\ \A w \in HandleIds :
           (TerminateSent(w) /\ Dead(w)) =>
               \A s \in Seqs : submitted[s].id = w => s \in applied
    /\ \A w \in HandleIds :
           \A i \in 1 .. Len(queue[w]) :
               queue[w][i].kind = "Terminate" => i = Len(queue[w])
    /\ drop_pc = "returned" => \A w \in HandleIds : pc[w] = "stopped"

\* C8: the second run of the body of drop does not panic.
C8_SecondShutdownOk == drop_runs >= 2 => drop_pc # "panicked"

\* C9: when the lock is free and no submitted transaction is unapplied,
\* every account has pending count 0 and no handler.
C9_QuiescentReleased ==
    (lock = NoOwner /\ Unapplied = {}) =>
        \A a \in Accounts :
            /\ get_pending_tx(pending_tx, a) = Zero
            /\ MapGet(handler, a, INVALID_HANDLE) = INVALID_HANDLE

\* C9 witness: quiescent again after two accounts had transactions applied.
C9_Witness ==
    /\ lock = NoOwner
    /\ Unapplied = {}
    /\ \A a \in Accounts : TxOf(a) # {} /\ a \in DOMAIN handler

\* C10: when no worker can take a step any more, every worker's count is
\* back to 0.
C10_LoadReturnsToZero ==
    (lock = NoOwner /\ WorkersDone) =>
        \A w \in HandleIds : MapGet(tx_count, w, Zero) = Zero

\* The exact net effect (deposits minus withdrawals) of the applied
\* transactions of the account among the first n submitted.
RECURSIVE AppliedNet(_, _)
AppliedNet(account, n) ==
    IF n = 0 THEN Zero
    ELSE IF submitted[n].account # account \/ n \notin applied
         THEN AppliedNet(account, n - 1)
    ELSE IF submitted[n].tx_type = "DEPOSIT"
         THEN WideAdd(AppliedNet(account, n - 1), submitted[n].amount)
         ELSE WideSub(AppliedNet(account, n - 1), submitted[n].amount)

\* C11: whenever get_balance can run (the Aptone is alive, the lock free)
\* it returns, without panicking, the net effect of the transactions of the
\* account that were applied, for the accounts in use and for account 2,
\* which is never referenced.
C11_BalanceIsAppliedNet ==
    (drop_pc = "alive" /\ lock = NoOwner) =>
        /\ ~poisoned
        /\ \A a \in Accounts \cup {2} :
               Aptone_get_balance_ret(a) = AppliedNet(a, Len(submitted))

\* C12: when the lock is free, the pending count of every account is the
\* number of its transactions accepted by handle_tx minus the number the
\* workers have fully processed.
C12_PendingIsOutstanding ==
    lock = NoOwner =>
        \A a \in Accounts :
            get_pending_tx(pending_tx, a)
                = U32(Cardinality(TxOf(a)) - Cardinality(TxOf(a) \cap applied))

\* C12 witness: an account with three transactions accepted, one of them
\* processed, and the lock free.
C12_Witness ==
    /\ lock = NoOwner
    /\ \E a \in Accounts :
           /\ Cardinality(TxOf(a)) = 3
           /\ Cardinality(TxOf(a) \cap applied) = 1

\* The worker the account is bound to, INVALID_HANDLE when it has none.
Affinity(account) == MapGet(handler, account, INVALID_HANDLE)

\* C13: in a step that changes an account's handler, the account's pending
\* count is 0 at the change: a step that binds it starts from pending 0 and
\* from no handler (so an account is never moved from one worker to
\* another), and a step that releases it is the worker's own critical
\* section, which leaves pending 0.
C13_AffinityChangesAtZero ==
    [][\A a \in Accounts :
           MapGet(handler', a, INVALID_HANDLE) # Affinity(a) =>
               IF MapGet(handler', a, INVALID_HANDLE) = INVALID_HANDLE
               THEN /\ get_pending_tx(pending_tx', a) = Zero
                    /\ lock = Affinity(a)
               ELSE /\ get_pending_tx(pending_tx, a) = Zero
                    /\ Affinity(a) = INVALID_HANDLE]_vars

\* C13 witness: an account that a worker applied a transaction of is now
\* bound to another worker (it was released and bound again).
C13_Witness ==
    \E s \in applied :
        Affinity(submitted[s].account) \notin {INVALID_HANDLE, submitted[s].id}

\* The count of worker w.
WorkerLoad(w) == MapGet(tx_count, w, Zero)

C15_NoLockWhileIdle ==
    \A w \in HandleIds : pc[w] \in {"sleep", "recv"} => lock # w

\* C15 witness: one worker is in its delay after applying a transaction
\* while another worker holds the lock for its own apply step.
C15_Witness ==
    \E w \in HandleIds :
        /\ pc[w] = "sleep"
        /\ lock \in HandleIds \ {w}
        /\ pc[lock] = "apply"

\* C16: a worker that is in its delay, where it may stay forever, is given
\* no transaction of an account that is not pinned to it: a handle_tx step
\* for such an account picks another worker.
C16_StuckWorkerStallsOnlyItsAccounts ==
    [][\A w \in HandleIds :
           (/\ pc[w] = "sleep"
            /\ lock = NoOwner
            /\ lock' = Caller
            /\ Affinity(call'.msg.account) # w) => call'.id # w]_vars

\* C17: applying a deposit always succeeds: the step of a worker that
\* applies a DEPOSIT records it as applied, leaves the mutex unpoisoned and
\* takes the worker to its delay, from where it goes on receiving.
C17_DepositAlwaysSucceeds ==
    [][\A w \in HandleIds :
           (/\ pc[w] = "apply"
            /\ cur[w].tx_type = "DEPOSIT"
            /\ pc'[w] # "apply")
               => /\ pc'[w] = "sleep"
                  /\ cur[w].seq \in applied'
                  /\ poisoned' = poisoned]_vars

\* C18: whenever a worker is about to settle a transaction it received
\* (it holds the lock in its apply step), the pending count of the
\* transaction's account and the worker's own count exist and are at least
\* 1, so neither decrement has to clamp.
C18_ClampNeverExercised ==
    \A w \in HandleIds :
        pc[w] = "apply" =>
            /\ cur[w].account \in DOMAIN pending_tx
            /\ ~U32Lt(pending_tx[cur[w].account], One)
            /\ w \in DOMAIN tx_count
            /\ ~U32Lt(tx_count[w], One)

\* C18 witness: a worker is about to settle with both counts exactly 1, and
\* another has already settled a transaction.
C18_Witness ==
    /\ applied # {}
    /\ \E w \in HandleIds :
           /\ pc[w] = "apply"
           /\ get_pending_tx(pending_tx, cur[w].account) = One
           /\ WorkerLoad(w) = One

\* The sum of the pending counts of the accounts in S that are pinned to w.
RECURSIVE PinnedPending(_, _)
PinnedPending(w, S) ==
    IF S = {} THEN Zero
    ELSE LET a == CHOOSE x \in S : TRUE
         IN  WideAdd(IF Affinity(a) = w THEN get_pending_tx(pending_tx, a)
                     ELSE Zero,
                     PinnedPending(w, S \ {a}))

\* The transactions in w's queue or received by w and not yet settled.
Outstanding(w) ==
    Cardinality({i \in 1 .. Len(queue[w]) : queue[w][i].kind = "NewTx"})
        + (IF cur[w].kind = "NewTx" THEN 1 ELSE 0)

\* C19 (i): an account has a handler exactly when something is pending on it.
CountersMatchAffinity ==
    \A a \in Accounts :
        (Affinity(a) # INVALID_HANDLE) <=> (get_pending_tx(pending_tx, a) # Zero)

\* C19 (ii), first half: a worker's count is the sum of its accounts' counts.
LoadIsPinnedPending ==
    \A w \in HandleIds : WorkerLoad(w) = PinnedPending(w, Accounts)

\* C19 (ii), second half: a worker's count is what it has still to settle.
LoadIsOutstanding ==
    \A w \in HandleIds : WorkerLoad(w) = U32(Outstanding(w))

\* C19: whenever the lock is free, an account has a handler exactly when its
\* pending count is positive, and every worker's count equals the sum of the
\* pending counts of the accounts pinned to it, which equals the number of
\* transactions in its queue or received by it and not yet settled.
C19_CountersConsistent ==
    lock = NoOwner =>
        /\ CountersMatchAffinity
        /\ LoadIsPinnedPending
        /\ LoadIsOutstanding

\* C20: the id that get_handle returned inside handle_tx is a worker id in
\* [0, THREAD_COUNT), never INVALID_HANDLE, and so is the id it would return
\* for any account whenever a handle_tx can start: the assertions at lines
\* 113 and 227 hold and handles[id] is in range.
C20_DispatchIdValid ==
    /\ lock = Caller => call.id \in HandleIds
    /\ lock = NoOwner =>
           \A a \in Accounts : get_handle(handler, tx_count, a) \in HandleIds

\* C20 witness: handle_tx holds the lock with the id of worker 1, chosen
\* for an account that was not pinned while worker 0 had work to do.
C20_Witness ==
    /\ lock = Caller
    /\ call.id = 1
    /\ U32Lt(Zero, WorkerLoad(0))
    /\ get_pending_tx(pending_tx, call.msg.account) = One

====
